---- MODULE Spec2Model ----
(***************************************************************************)
(* Sail plan tracker (src/main.py): the sail-selection toggle logic, the   *)
(* pending/committed reconciliation and the time-series store it saves to. *)
(*                                                                         *)
(* Time is counted in ticks of 500 ms.  A stored point is identified by    *)
(* its measurement, tag set and timestamp; the handlers always write the   *)
(* same measurement and tag, so the store holds one record per timestamp   *)
(* and a write at an existing timestamp replaces that record's fields.     *)
(***************************************************************************)
EXTENDS Integers, Sequences, FiniteSets, TLC

VARIABLES
    form,      \* the client's hidden inputs: the pending configuration it holds
    store,     \* the sail_config points of vessel morticia, one per timestamp
    now,       \* the clock, in ticks
    served,    \* number of requests served so far
    req,       \* the last request
    resp       \* the last response

vars == <<form, store, now, served, req, resp>>

----------------------------------------------------------------------------
(* Bounds of the model *)

\* requests served in one run
MaxRequests == 3
\* back-dated saves pick minute 0..MaxMinute
MaxMinute == 1
\* number of 30-day periods the clock may let pass
MaxElapse == 1

(* Program constants, in ticks of 500 ms *)

\* range(start: -30d) of get_current_sail_config
RangeWindow == 5184000
\* range(start: -7d) of get_recent_entries
RecentWindow == 1209600
\* timedelta(milliseconds=500) of delete_sail_entry
DeleteTolerance == 1
\* a back-dated timestamp has date, hour and minute only
MinuteTicks == 120
\* get_recent_entries(50)
HistoryLimit == 50

(* The boat's sail vocabulary (boat_config.toml) *)

MAIN_STATES == {"FULL", "REEF1"}
HEADSAILS == {"JIB", "GENOA"}
DOWNWIND_SAILS == {"REACHING_SPI"}

\* the categories a request path can carry: the three known ones and another
Categories == {"main", "headsail", "downwind", "staysail"}
\* the values a request path can carry (a path segment is never empty)
Values == MAIN_STATES \cup HEADSAILS \cup DOWNWIND_SAILS \cup {"DOWN"}
\* the buttons of the page: a value of the category's own options
Buttons ==
    ({"main"} \X MAIN_STATES) \cup ({"headsail"} \X HEADSAILS)
        \cup ({"downwind"} \X DOWNWIND_SAILS)
\* the free-text comments a save can carry
Comments == {"", "reefed", "None"}

----------------------------------------------------------------------------
(* Configurations *)

\* the default of get_current_sail_config when no record is read
DefaultConfig ==
    [main |-> "DOWN", headsail |-> "", downwind |-> "",
     staysail_mode |-> FALSE, comment |-> ""]

\* the four fields a pending configuration carries
PendingOf(config) ==
    [main |-> config.main, headsail |-> config.headsail,
     downwind |-> config.downwind, staysail_mode |-> config.staysail_mode]

\* what another client has pending on its page, two toggles from the default
OtherPending ==
    [main |-> "REEF1", headsail |-> "GENOA", downwind |-> "",
     staysail_mode |-> FALSE]

\* every pending configuration a client can supply over the vocabulary
AnyPending ==
    [main : MAIN_STATES \cup {"DOWN"},
     headsail : HEADSAILS \cup DOWNWIND_SAILS \cup {""},
     downwind : HEADSAILS \cup DOWNWIND_SAILS \cup {""},
     staysail_mode : BOOLEAN]

----------------------------------------------------------------------------
(* Sail State Engine *)

\* a plausible slip: a tap on the selected main state does not deselect it
toggleMain_noDeselect(current, value) ==
    [main |-> value, headsail |-> current.headsail,
     downwind |-> current.downwind, staysail_mode |-> current.staysail_mode]

\* a plausible slip: deselecting the main state leaves it empty
toggleMain_emptyDeselect(current, value) ==
    [main |-> IF value # current.main THEN value ELSE "",
     headsail |-> current.headsail,
     downwind |-> current.downwind, staysail_mode |-> current.staysail_mode]

\* toggle_sail, category main
toggleMain(current, value) ==
    [main |-> IF value # current.main THEN value ELSE "DOWN",
     headsail |-> current.headsail,
     downwind |-> current.downwind,
     staysail_mode |-> current.staysail_mode]

\* a plausible slip: a new headsail never clears the downwind sail
toggleHeadsail_keepsDownwind(current, value) ==
    LET new_headsail == IF value = current.headsail THEN "" ELSE value
    IN  [main |-> current.main, headsail |-> new_headsail,
         downwind |-> current.downwind,
         staysail_mode |-> new_headsail = "JIB"
                           /\ current.downwind = "REACHING_SPI"
                           /\ current.staysail_mode]

\* a plausible slip: staysail mode is not restored on the allowed pair
toggleHeadsail_staysailLost(current, value) ==
    LET new_headsail == IF value = current.headsail THEN "" ELSE value
    IN  IF new_headsail = ""
        THEN [main |-> current.main, headsail |-> new_headsail,
              downwind |-> current.downwind, staysail_mode |-> FALSE]
        ELSE IF new_headsail = "JIB" /\ current.downwind = "REACHING_SPI"
        THEN [main |-> current.main, headsail |-> new_headsail,
              downwind |-> current.downwind, staysail_mode |-> FALSE]
        ELSE [main |-> current.main, headsail |-> new_headsail,
              downwind |-> "", staysail_mode |-> FALSE]

\* a plausible slip: the headsail already set is set again, not taken down
toggleHeadsail_noDeselect(current, value) ==
    LET new_headsail == value
    IN  IF new_headsail = ""
        THEN [main |-> current.main, headsail |-> new_headsail,
              downwind |-> current.downwind, staysail_mode |-> FALSE]
        ELSE IF new_headsail = "JIB" /\ current.downwind = "REACHING_SPI"
        THEN [main |-> current.main, headsail |-> new_headsail,
              downwind |-> current.downwind,
              staysail_mode |-> current.staysail_mode]
        ELSE [main |-> current.main, headsail |-> new_headsail,
              downwind |-> "", staysail_mode |-> FALSE]

\* toggle_sail, category headsail
toggleHeadsail(current, value) ==
    LET new_headsail == IF value = current.headsail THEN "" ELSE value
    IN  IF new_headsail = ""
        THEN [main |-> current.main, headsail |-> new_headsail,
              downwind |-> current.downwind, staysail_mode |-> FALSE]
        ELSE IF new_headsail = "JIB" /\ current.downwind = "REACHING_SPI"
        THEN [main |-> current.main, headsail |-> new_headsail,
              downwind |-> current.downwind,
              staysail_mode |-> current.staysail_mode]
        ELSE [main |-> current.main, headsail |-> new_headsail,
              downwind |-> "", staysail_mode |-> FALSE]

\* a plausible slip: the downwind branch tests the pair as the headsail branch does
toggleDownwind_headsailPair(current, value) ==
    LET new_downwind == IF value = current.downwind THEN "" ELSE value
    IN  IF new_downwind = ""
        THEN [main |-> current.main, headsail |-> current.headsail,
              downwind |-> new_downwind, staysail_mode |-> FALSE]
        ELSE IF new_downwind = "JIB" /\ current.headsail = "REACHING_SPI"
        THEN [main |-> current.main, headsail |-> current.headsail,
              downwind |-> new_downwind,
              staysail_mode |-> current.staysail_mode]
        ELSE [main |-> current.main, headsail |-> "",
              downwind |-> new_downwind, staysail_mode |-> FALSE]

\* toggle_sail, category downwind
toggleDownwind(current, value) ==
    LET new_downwind == IF value = current.downwind THEN "" ELSE value
    IN  IF new_downwind = ""
        THEN [main |-> current.main, headsail |-> current.headsail,
              downwind |-> new_downwind, staysail_mode |-> FALSE]
        ELSE IF new_downwind = "REACHING_SPI" /\ current.headsail = "JIB"
        THEN [main |-> current.main, headsail |-> current.headsail,
              downwind |-> new_downwind,
              staysail_mode |-> current.staysail_mode]
        ELSE [main |-> current.main, headsail |-> "",
              downwind |-> new_downwind, staysail_mode |-> FALSE]

\* a plausible slip: an unknown category falls back to the form's default values
toggleSail_unknownDefaults(current, category, value) ==
    IF category = "main" THEN toggleMain(current, value)
    ELSE IF category = "headsail" THEN toggleHeadsail(current, value)
    ELSE IF category = "downwind" THEN toggleDownwind(current, value)
    ELSE PendingOf(DefaultConfig)

\* toggle_sail: the new pending configuration of the request
toggleSail(current, category, value) ==
    IF category = "main" THEN toggleMain(current, value)
    ELSE IF category = "headsail" THEN toggleHeadsail(current, value)
    ELSE IF category = "downwind" THEN toggleDownwind(current, value)
    ELSE [main |-> current.main, headsail |-> current.headsail,
          downwind |-> current.downwind,
          staysail_mode |-> current.staysail_mode]

\* a plausible slip: staysail mode is turned on only with the allowed pair
toggleStaysail_onlyWithPair(current) ==
    [main |-> current.main, headsail |-> current.headsail,
     downwind |-> current.downwind,
     staysail_mode |-> /\ ~current.staysail_mode
                       /\ current.headsail = "JIB"
                       /\ current.downwind = "REACHING_SPI"]

\* toggle_staysail: the new pending configuration of the request
toggleStaysail(current) ==
    [main |-> current.main, headsail |-> current.headsail,
     downwind |-> current.downwind, staysail_mode |-> ~current.staysail_mode]

\* a plausible slip: the staysail comparison is left out
diff_withoutStaysail(pending, committed) ==
    \/ pending.main # committed.main
    \/ pending.headsail # committed.headsail
    \/ pending.downwind # committed.downwind

\* has_changes of toggle_sail and toggle_staysail
diff(pending, committed) ==
    \/ pending.main # committed.main
    \/ pending.headsail # committed.headsail
    \/ pending.downwind # committed.downwind
    \/ pending.staysail_mode # committed.staysail_mode

----------------------------------------------------------------------------
(* Persistence: the sail_config points *)

\* a value a point does not carry is read as None
PyNone == "<None>"

\* a plausible slip: the placeholder the write uses is not among the texts read
\* as absent
sanitize_withoutPlaceholder(val, default) ==
    IF val = PyNone \/ val = "None" THEN default ELSE val

\* sanitize of get_current_sail_config
sanitize(val, default) ==
    IF val = PyNone \/ val = "None" \/ val = "NONE" THEN default ELSE val

\* a plausible slip: the downwind field is written from the headsail
Point_headsailTwice(main, headsail, downwind, staysail_mode, comment, timestamp) ==
    [time |-> timestamp,
     main |-> main,
     headsail |-> IF headsail # "" THEN headsail ELSE "NONE",
     downwind |-> IF headsail # "" THEN headsail ELSE "NONE",
     staysail_mode |-> staysail_mode,
     comment |-> comment]

\* the point write_sail_config builds
Point(main, headsail, downwind, staysail_mode, comment, timestamp) ==
    [time |-> timestamp,
     main |-> main,
     headsail |-> IF headsail # "" THEN headsail ELSE "NONE",
     downwind |-> IF downwind # "" THEN downwind ELSE "NONE",
     staysail_mode |-> staysail_mode,
     comment |-> comment]

\* write_api.write: the point replaces the one of its timestamp, if any
write(points, point) ==
    {p \in points : p.time # point.time} \cup {point}

\* the points of range(start: -window) at instant `at`, stop being now()
InRange(points, window, at) ==
    {p \in points : p.time >= at - window /\ p.time < at}

\* sort(columns: ["_time"], desc: true) |> limit(n: 1)
Latest(points) ==
    CHOOSE p \in points : \A q \in points : q.time <= p.time

\* get_current_sail_config when the query succeeds
get_current_sail_config(points, at) ==
    LET found == InRange(points, RangeWindow, at)
    IN  IF found = {} THEN DefaultConfig
        ELSE LET record == Latest(found)
             IN  [main |-> sanitize(record.main, "DOWN"),
                  headsail |-> sanitize(record.headsail, ""),
                  downwind |-> sanitize(record.downwind, ""),
                  staysail_mode |-> record.staysail_mode,
                  comment |-> sanitize(record.comment, "")]

\* the committed configuration a handler reads: the default when the query raises
Committed(points, at, readOk) ==
    IF readOk THEN get_current_sail_config(points, at) ELSE DefaultConfig

\* the entry get_recent_entries makes of a record, lines 219-226
Entry(record) ==
    [time |-> record.time,
     main |-> LET m == sanitize(record.main, "") IN IF m # "" THEN m ELSE "DOWN",
     headsail |-> sanitize(record.headsail, ""),
     downwind |-> sanitize(record.downwind, ""),
     staysail_mode |-> record.staysail_mode,
     comment |-> sanitize(record.comment, "")]

RECURSIVE SortDesc(_)
\* the points as a sequence, latest first
SortDesc(points) ==
    IF points = {} THEN <<>>
    ELSE LET p == Latest(points) IN <<p>> \o SortDesc(points \ {p})

\* the first n elements of a sequence
Limit(seq, n) ==
    IF Len(seq) <= n THEN seq ELSE SubSeq(seq, 1, n)

\* get_recent_entries(50): the empty list when the query raises
get_recent_entries(points, at, readOk) ==
    IF ~readOk THEN <<>>
    ELSE LET rows == Limit(SortDesc(InRange(points, RecentWindow, at)), HistoryLimit)
         IN  [i \in 1..Len(rows) |-> Entry(rows[i])]

\* a plausible slip: only the point stamped with the very instant is removed
delete_sail_entry_exact(points, timestamp) ==
    {p \in points : p.time # timestamp}

\* delete_api.delete(start, stop): the points left, both ends of the range removed
delete_sail_entry(points, timestamp) ==
    {p \in points : ~(p.time >= timestamp - DeleteTolerance
                      /\ p.time <= timestamp + DeleteTolerance)}

\* the instants a back-dated save can name: whole minutes
Backdates == {m * MinuteTicks : m \in 0..MaxMinute}

----------------------------------------------------------------------------
(* The summary line *)

\* the display names of the boat's sails
SAIL_DISPLAY ==
    [JIB |-> "Jib", GENOA |-> "Genoa", REACHING_SPI |-> "Reaching Spi"]

\* a plausible slip: the identifier is shown, not its display name
Display_raw(sail) == sail

\* SAIL_DISPLAY.get(sail, sail)
Display(sail) ==
    IF sail \in DOMAIN SAIL_DISPLAY THEN SAIL_DISPLAY[sail] ELSE sail

\* x or default, for a form value: None and the empty text are falsy
Or(x, default) == IF x = PyNone \/ x = "" THEN default ELSE x

RECURSIVE Join(_)
\* " + ".join(parts)
Join(parts) ==
    IF Len(parts) = 1 THEN Head(parts)
    ELSE Head(parts) \o " + " \o Join(Tail(parts))

\* format_config_summary(config); a key the configuration lacks reads as None
format_config_summary(config) ==
    LET main == IF Or(config.main, "DOWN") \in {"DOWN", "None"}
                THEN "DOWN" ELSE config.main
        mainPart == IF main = "DOWN" THEN <<"Main: DOWN">>
                    ELSE <<"Main: " \o main>>
        headsail == IF Or(config.headsail, "") \notin {"", "None"}
                    THEN config.headsail ELSE ""
        headsailPart ==
            IF headsail = "" THEN <<>>
            ELSE <<Display(headsail)
                     \o (IF config.staysail_mode THEN " (S)" ELSE "")>>
        downwind == IF Or(config.downwind, "") \notin {"", "None"}
                    THEN config.downwind ELSE ""
        downwindPart == IF downwind = "" THEN <<>> ELSE <<Display(downwind)>>
    IN  IF headsail = "" /\ downwind = "" /\ main = "DOWN"
        THEN "All sails down"
        ELSE Join(mainPart \o headsailPart \o downwindPart)

\* the configurations the summary is asked for: sails of the boat, a sail the
\* display table lacks, and what stands for no sail
SummaryInputs ==
    [main : {PyNone, "", "None", "DOWN", "FULL"},
     headsail : {PyNone, "", "None", "JIB", "STORM_JIB"},
     downwind : {PyNone, "", "None", "REACHING_SPI", "ASYM"},
     staysail_mode : BOOLEAN]

----------------------------------------------------------------------------
(* Request handlers *)

\* the last request was this same toggle, so this one is applied to its result
SameToggleSail(category, value) ==
    req.op = "toggle_sail" /\ req.category = category /\ req.value = value

\* a plausible slip: the toggle starts from what the store holds, as a server
\* that kept the selection itself would
toggle_sail_fromCommitted(category, value) ==
    /\ served < MaxRequests
    /\ \E readOk \in BOOLEAN :
         LET committed == Committed(store, now, readOk)
             pending == toggleSail(PendingOf(committed), category, value)
         IN  /\ form' = pending
             /\ resp' = [op |-> "toggle_sail", pending |-> pending,
                         committed |-> committed,
                         has_changes |-> diff(pending, committed),
                         summary |-> format_config_summary(pending)]
             /\ req' = [op |-> "toggle_sail", pending |-> form,
                        category |-> category, value |-> value,
                        twice |-> SameToggleSail(category, value),
                        first |-> IF SameToggleSail(category, value)
                                  THEN req.pending ELSE form,
                        read_ok |-> readOk]
    /\ served' = served + 1
    /\ UNCHANGED <<store, now>>

\* POST /sail/{category}/{value}
toggle_sail(category, value) ==
    /\ served < MaxRequests
    /\ \E readOk \in BOOLEAN :
         LET pending == toggleSail(form, category, value)
             committed == Committed(store, now, readOk)
         IN  /\ form' = pending
             /\ resp' = [op |-> "toggle_sail", pending |-> pending,
                         committed |-> committed,
                         has_changes |-> diff(pending, committed),
                         summary |-> format_config_summary(pending)]
             /\ req' = [op |-> "toggle_sail", pending |-> form,
                        category |-> category, value |-> value,
                        twice |-> SameToggleSail(category, value),
                        first |-> IF SameToggleSail(category, value)
                                  THEN req.pending ELSE form,
                        read_ok |-> readOk]
    /\ served' = served + 1
    /\ UNCHANGED <<store, now>>

\* a plausible slip: the toggle writes its result to the store as a save does
toggle_staysail_persists ==
    /\ served < MaxRequests
    /\ \E readOk \in BOOLEAN :
         LET pending == toggleStaysail(form)
             point == Point(pending.main, pending.headsail, pending.downwind,
                            pending.staysail_mode, "", now)
             committed == Committed(write(store, point), now, readOk)
         IN  /\ form' = pending
             /\ store' = write(store, point)
             /\ resp' = [op |-> "toggle_staysail", pending |-> pending,
                         committed |-> committed,
                         has_changes |-> diff(pending, committed),
                         summary |-> format_config_summary(pending)]
             /\ req' = [op |-> "toggle_staysail", pending |-> form,
                        twice |-> req.op = "toggle_staysail",
                        first |-> IF req.op = "toggle_staysail"
                                  THEN req.pending ELSE form,
                        read_ok |-> readOk]
    /\ served' = served + 1
    /\ UNCHANGED now

\* POST /staysail/toggle
toggle_staysail ==
    /\ served < MaxRequests
    /\ \E readOk \in BOOLEAN :
         LET pending == toggleStaysail(form)
             committed == Committed(store, now, readOk)
         IN  /\ form' = pending
             /\ resp' = [op |-> "toggle_staysail", pending |-> pending,
                         committed |-> committed,
                         has_changes |-> diff(pending, committed),
                         summary |-> format_config_summary(pending)]
             /\ req' = [op |-> "toggle_staysail", pending |-> form,
                        twice |-> req.op = "toggle_staysail",
                        first |-> IF req.op = "toggle_staysail"
                                  THEN req.pending ELSE form,
                        read_ok |-> readOk]
    /\ served' = served + 1
    /\ UNCHANGED <<store, now>>

\* a plausible slip: the history trigger is set whether or not the write worked
save_config_alwaysTriggers(comment, backdate, instant) ==
    /\ served < MaxRequests
    /\ \E writeOk \in BOOLEAN, readOk \in BOOLEAN :
         LET timestamp == IF backdate THEN instant ELSE now
             point == Point(form.main, form.headsail, form.downwind,
                            form.staysail_mode, comment, timestamp)
             written == IF writeOk THEN write(store, point) ELSE store
             config == Committed(written, now + 1, readOk)
         IN  /\ store' = written
             /\ form' = PendingOf(config)
             /\ resp' = [op |-> "save", pending |-> config, committed |-> config,
                         has_changes |-> FALSE, save_success |-> writeOk,
                         trigger |-> TRUE,
                         summary |-> format_config_summary(config)]
             /\ req' = [op |-> "save", pending |-> form, comment |-> comment,
                        backdate |-> backdate, timestamp |-> timestamp,
                        write_ok |-> writeOk, read_ok |-> readOk,
                        read_at |-> now + 1]
    /\ served' = served + 1
    /\ now' = now + 1

\* a plausible slip: when the write fails the response keeps the pending sails
\* of the request, still with has_changes false
save_config_keepsPending(comment, backdate, instant) ==
    /\ served < MaxRequests
    /\ \E writeOk \in BOOLEAN, readOk \in BOOLEAN :
         LET timestamp == IF backdate THEN instant ELSE now
             point == Point(form.main, form.headsail, form.downwind,
                            form.staysail_mode, comment, timestamp)
             written == IF writeOk THEN write(store, point) ELSE store
             config == Committed(written, now + 1, readOk)
             pending == IF writeOk THEN config
                        ELSE [main |-> form.main, headsail |-> form.headsail,
                              downwind |-> form.downwind,
                              staysail_mode |-> form.staysail_mode,
                              comment |-> comment]
         IN  /\ store' = written
             /\ form' = PendingOf(pending)
             /\ resp' = [op |-> "save", pending |-> pending, committed |-> config,
                         has_changes |-> FALSE, save_success |-> writeOk,
                         trigger |-> writeOk,
                         summary |-> format_config_summary(pending)]
             /\ req' = [op |-> "save", pending |-> form, comment |-> comment,
                        backdate |-> backdate, timestamp |-> timestamp,
                        write_ok |-> writeOk, read_ok |-> readOk,
                        read_at |-> now + 1]
    /\ served' = served + 1
    /\ now' = now + 1

\* POST /save: the write is stamped now or with the back-dated instant, and the
\* configuration is read back a tick later
save_config(comment, backdate, instant) ==
    /\ served < MaxRequests
    /\ \E writeOk \in BOOLEAN, readOk \in BOOLEAN :
         LET timestamp == IF backdate THEN instant ELSE now
             point == Point(form.main, form.headsail, form.downwind,
                            form.staysail_mode, comment, timestamp)
             written == IF writeOk THEN write(store, point) ELSE store
             config == Committed(written, now + 1, readOk)
         IN  /\ store' = written
             /\ form' = PendingOf(config)
             /\ resp' = [op |-> "save", pending |-> config, committed |-> config,
                         has_changes |-> FALSE, save_success |-> writeOk,
                         trigger |-> writeOk,
                         summary |-> format_config_summary(config)]
             /\ req' = [op |-> "save", pending |-> form, comment |-> comment,
                        backdate |-> backdate, timestamp |-> timestamp,
                        write_ok |-> writeOk, read_ok |-> readOk,
                        read_at |-> now + 1]
    /\ served' = served + 1
    /\ now' = now + 1

\* POST /save from another client: the same handler on the form of that client;
\* the response goes to its page, so the form of this page stays as it is
save_config_other_client ==
    /\ served < MaxRequests
    /\ \E writeOk \in BOOLEAN, readOk \in BOOLEAN :
         LET point == Point(OtherPending.main, OtherPending.headsail,
                            OtherPending.downwind, OtherPending.staysail_mode,
                            "", now)
             written == IF writeOk THEN write(store, point) ELSE store
             config == Committed(written, now + 1, readOk)
         IN  /\ store' = written
             /\ resp' = [op |-> "save", pending |-> config, committed |-> config,
                         has_changes |-> FALSE, save_success |-> writeOk,
                         trigger |-> writeOk,
                         summary |-> format_config_summary(config)]
             /\ req' = [op |-> "save", pending |-> OtherPending, comment |-> "",
                        backdate |-> FALSE, timestamp |-> now,
                        write_ok |-> writeOk, read_ok |-> readOk,
                        read_at |-> now + 1]
    /\ served' = served + 1
    /\ now' = now + 1
    /\ UNCHANGED form

\* DELETE /entry/{timestamp}: from this page or from another client's
delete_entry(timestamp) ==
    /\ served < MaxRequests
    /\ \E deleteOk \in BOOLEAN, readOk \in BOOLEAN :
         LET left == IF deleteOk THEN delete_sail_entry(store, timestamp) ELSE store
         IN  /\ store' = left
             /\ resp' = [op |-> "delete", after_delete |-> TRUE,
                         entries |-> get_recent_entries(left, now, readOk)]
             /\ req' = [op |-> "delete", timestamp |-> timestamp,
                        delete_ok |-> deleteOk, read_ok |-> readOk]
    /\ served' = served + 1
    /\ UNCHANGED <<form, now>>

\* GET /config
get_config ==
    /\ served < MaxRequests
    /\ \E readOk \in BOOLEAN :
         LET config == Committed(store, now, readOk)
         IN  /\ form' = PendingOf(config)
             /\ resp' = [op |-> "config", pending |-> config, committed |-> config,
                         has_changes |-> FALSE,
                         summary |-> format_config_summary(config)]
             /\ req' = [op |-> "config", read_ok |-> readOk]
    /\ served' = served + 1
    /\ UNCHANGED <<store, now>>

\* thirty days pass with no request
Elapse ==
    /\ now < MaxElapse * RangeWindow
    /\ now' = now + RangeWindow
    /\ UNCHANGED <<form, store, served, req, resp>>

----------------------------------------------------------------------------
(* The application: the page is loaded on an empty store, then requests *)

Init ==
    /\ form = PendingOf(DefaultConfig)
    /\ store = {}
    /\ now = 1
    /\ served = 0
    /\ req = [op |-> "index"]
    /\ resp = [op |-> "index", config |-> DefaultConfig]

\* the requests of this page, the saves of another client (whose deletes are
\* the deletes below: a delete carries no form) and the passing of time; a
\* back-dated save is made without a comment
Next ==
    \/ \E b \in Buttons : toggle_sail(b[1], b[2])
    \/ toggle_staysail
    \/ \E comment \in Comments : save_config(comment, FALSE, 0)
    \/ \E instant \in Backdates : save_config("", TRUE, instant)
    \/ save_config_other_client
    \/ \E p \in store : delete_entry(p.time)
    \/ get_config
    \/ Elapse

Spec == Init /\ [][Next]_vars

(* The engine alone: any pending configuration supplied, any path requested *)

InitEngine ==
    /\ form \in AnyPending
    /\ store = {}
    /\ now = 1
    /\ served = 0
    /\ req = [op |-> "index"]
    /\ resp = [op |-> "index", config |-> DefaultConfig]

NextEngine ==
    \/ \E category \in Categories, value \in Values : toggle_sail(category, value)
    \/ toggle_staysail

SpecEngine == InitEngine /\ [][NextEngine]_vars

(* The formatter alone: the summary of any configuration asked for *)

\* a call of format_config_summary on the configuration at hand
summarize ==
    /\ served < MaxRequests
    /\ req' = [op |-> "summary", config |-> form]
    /\ resp' = [op |-> "summary", summary |-> format_config_summary(form)]
    /\ served' = served + 1
    /\ UNCHANGED <<form, store, now>>

InitFormat ==
    /\ form \in SummaryInputs
    /\ store = {}
    /\ now = 1
    /\ served = 0
    /\ req = [op |-> "index"]
    /\ resp = [op |-> "index", config |-> DefaultConfig]

NextFormat == summarize

SpecFormat == InitFormat /\ [][NextFormat]_vars

----------------------------------------------------------------------------
(* Properties *)

\* headsail and downwind exclude each other, but for jib with reaching spinnaker
Exclusive(config) ==
    \/ config.headsail = ""
    \/ config.downwind = ""
    \/ config.headsail = "JIB" /\ config.downwind = "REACHING_SPI"

\* the last request was a sail toggle of this category
Toggled(category) ==
    req.op = "toggle_sail" /\ req.category = category

\* C1: whatever pending configuration is supplied, the configuration a headsail
\* or downwind toggle returns never has both headsail and downwind set, unless
\* they are JIB and REACHING_SPI; every other toggle keeps that property, so it
\* holds of every configuration reached from the default by toggles.
C1_MutualExclusion ==
    /\ (Toggled("headsail") \/ Toggled("downwind")) => Exclusive(resp.pending)
    /\ (req.op \in {"toggle_sail", "toggle_staysail"} /\ Exclusive(req.pending))
           => Exclusive(resp.pending)

\* C1 witness: a headsail or downwind toggle on a supplied configuration that
\* had both set outside the allowed pair
C1_Witness ==
    /\ Toggled("headsail") \/ Toggled("downwind")
    /\ ~Exclusive(req.pending)
    /\ Exclusive(resp.pending)
    /\ resp.pending.headsail # "" \/ resp.pending.downwind # ""

\* C2: the pending configuration a toggle returns has staysail mode on only
\* with headsail JIB and downwind REACHING_SPI.
C2_StaysailOnlyWithAllowedPair ==
    req.op \in {"toggle_sail", "toggle_staysail"} =>
        (resp.pending.staysail_mode =>
            resp.pending.headsail = "JIB" /\ resp.pending.downwind = "REACHING_SPI")

\* C3 as claimed: the same main toggle applied twice returns the configuration
\* first supplied.
C3_MainToggleInvolution ==
    (Toggled("main") /\ req.twice) => resp.pending = req.first

\* C3 amended: the same main toggle applied twice returns the configuration
\* first supplied exactly when its main was the toggled value or DOWN; from any
\* other main the result has main DOWN and the other fields as supplied.
C3_MainToggleTwice ==
    (Toggled("main") /\ req.twice) =>
        IF req.first.main \in {req.value, "DOWN"}
        THEN resp.pending = req.first
        ELSE /\ resp.pending = [req.first EXCEPT !.main = "DOWN"]
             /\ resp.pending # req.first

\* C3 witness: a set main state toggled off and on again
C3_Witness ==
    /\ Toggled("main") /\ req.twice
    /\ req.value # "DOWN"
    /\ req.first.main = req.value
    /\ resp.pending = req.first

\* what a read makes of a written text: the placeholder texts are read as absent
ReadBack(text, default) ==
    IF text \in {"None", "NONE"} THEN default ELSE text

\* the configuration a save request carries, as a read gives it back
Saved ==
    [main |-> ReadBack(req.pending.main, "DOWN"),
     headsail |-> ReadBack(req.pending.headsail, ""),
     downwind |-> ReadBack(req.pending.downwind, ""),
     staysail_mode |-> req.pending.staysail_mode,
     comment |-> ReadBack(req.comment, "")]

\* the record of the last save lies in the range of the query that read it back
SavedInRange ==
    /\ req.timestamp >= req.read_at - RangeWindow
    /\ req.timestamp < req.read_at

\* the record of the last save is the latest one in the range of that query
SavedIsLatest ==
    /\ SavedInRange
    /\ \A p \in store :
         (p.time >= req.read_at - RangeWindow /\ p.time < req.read_at)
             => p.time <= req.timestamp

\* C4 as claimed, in the case most favourable to it (the read-back succeeds,
\* the saved record lies in the range of the query and its comment is no
\* placeholder text): after a save that reports success, back-dated or not,
\* the committed configuration of the response, shown as pending too, is the
\* one the request carried, comment included.
C4_SaveCommitsPending ==
    (/\ req.op = "save" /\ resp.save_success
     /\ req.read_ok /\ SavedInRange /\ req.comment \notin {"None", "NONE"}) =>
        /\ resp.committed.main = req.pending.main
        /\ resp.committed.headsail = req.pending.headsail
        /\ resp.committed.downwind = req.pending.downwind
        /\ resp.committed.staysail_mode = req.pending.staysail_mode
        /\ resp.committed.comment = req.comment
        /\ resp.pending = resp.committed

\* C4 amended: after a save that reports success and whose read-back succeeds,
\* the committed configuration of the response, shown as pending too, is the
\* one the request carried (a text None or NONE read back as absent) whenever
\* the saved record is the latest in the range of the query; a save that is not
\* back-dated is the latest unless a record is stamped between write and read.
C4_SaveCommitsLatest ==
    (req.op = "save" /\ resp.save_success /\ req.read_ok) =>
        /\ (/\ ~req.backdate
            /\ \A p \in store : ~(p.time > req.timestamp /\ p.time < req.read_at))
               => SavedIsLatest
        /\ SavedIsLatest =>
             /\ resp.committed = Saved
             /\ resp.pending = resp.committed
             /\ get_current_sail_config(store, req.read_at) = Saved

\* C4 witness: a back-dated save of a configuration with sails set, beside
\* another record, that becomes the committed configuration
C4_Witness ==
    /\ req.op = "save" /\ resp.save_success /\ req.read_ok
    /\ req.backdate
    /\ Cardinality(store) > 1
    /\ req.pending.headsail # ""
    /\ resp.committed = Saved

\* C5: a record of the store keeps its field values for as long as a record of
\* its timestamp exists.
C5_RecordsImmutable ==
    [][\A p \in store : (\E q \in store' : q.time = p.time) => p \in store']_vars

\* C6: a main toggle sets main to DOWN when the value is the current main and
\* to the value otherwise, and returns headsail, downwind and staysail mode as
\* supplied.
C6_MainToggle ==
    Toggled("main") =>
        /\ resp.pending.main =
               (IF req.value = req.pending.main THEN "DOWN" ELSE req.value)
        /\ resp.pending.headsail = req.pending.headsail
        /\ resp.pending.downwind = req.pending.downwind
        /\ resp.pending.staysail_mode = req.pending.staysail_mode

\* C6 witness: the set main state deselected beside sails and staysail mode
C6_Witness ==
    /\ Toggled("main")
    /\ req.value = req.pending.main /\ req.value # "DOWN"
    /\ resp.pending.main = "DOWN"
    /\ req.pending.headsail # "" /\ req.pending.downwind # ""
    /\ resp.pending.staysail_mode

\* C7: the decision table of a headsail toggle.
C7_HeadsailToggle ==
    Toggled("headsail") =>
        LET new_headsail ==
                IF req.value = req.pending.headsail THEN "" ELSE req.value
        IN  /\ resp.pending.main = req.pending.main
            /\ resp.pending.headsail = new_headsail
            /\ new_headsail = "" =>
                 /\ resp.pending.downwind = req.pending.downwind
                 /\ resp.pending.staysail_mode = FALSE
            /\ (new_headsail = "JIB" /\ req.pending.downwind = "REACHING_SPI") =>
                 /\ resp.pending.downwind = req.pending.downwind
                 /\ resp.pending.staysail_mode = req.pending.staysail_mode
            /\ (/\ new_headsail # ""
                /\ ~(new_headsail = "JIB" /\ req.pending.downwind = "REACHING_SPI")) =>
                 /\ resp.pending.downwind = ""
                 /\ resp.pending.staysail_mode = FALSE

\* C7 witness: the jib set beside the reaching spinnaker, staysail mode kept on
C7_Witness ==
    /\ Toggled("headsail")
    /\ req.value = "JIB" /\ req.pending.headsail # "JIB"
    /\ req.pending.downwind = "REACHING_SPI"
    /\ req.pending.staysail_mode
    /\ resp.pending.staysail_mode

\* JIB and REACHING_SPI exchanged, every other value kept
Exchange(value) ==
    IF value = "JIB" THEN "REACHING_SPI"
    ELSE IF value = "REACHING_SPI" THEN "JIB"
    ELSE value

\* a configuration with the headsail and downwind roles swapped
Mirror(config) ==
    [main |-> config.main,
     headsail |-> Exchange(config.downwind),
     downwind |-> Exchange(config.headsail),
     staysail_mode |-> config.staysail_mode]

\* C8: a downwind toggle gives what the headsail toggle gives on the mirrored
\* configuration, mirrored back; it keeps a set headsail beside a new downwind
\* sail exactly when that sail is REACHING_SPI and the headsail is JIB.
C8_DownwindMirrorsHeadsail ==
    Toggled("downwind") =>
        /\ resp.pending =
               Mirror(toggleSail(Mirror(req.pending), "headsail", Exchange(req.value)))
        /\ (req.pending.headsail # "" /\ req.value # req.pending.downwind) =>
               (resp.pending.headsail = req.pending.headsail
                    <=> (req.value = "REACHING_SPI" /\ req.pending.headsail = "JIB"))

\* C8 witness: the reaching spinnaker set beside the jib, staysail mode kept on
C8_Witness ==
    /\ Toggled("downwind")
    /\ req.value = "REACHING_SPI" /\ req.pending.downwind # "REACHING_SPI"
    /\ req.pending.headsail = "JIB"
    /\ req.pending.staysail_mode
    /\ resp.pending.headsail = "JIB" /\ resp.pending.staysail_mode

\* C9: a toggle of a category other than main, headsail and downwind returns
\* the pending configuration as supplied.
C9_UnknownCategory ==
    (req.op = "toggle_sail" /\ req.category \notin {"main", "headsail", "downwind"})
        => resp.pending = req.pending

\* C9 witness: an unknown category requested on a configuration with sails set
C9_Witness ==
    /\ req.op = "toggle_sail"
    /\ req.category \notin {"main", "headsail", "downwind"}
    /\ req.pending.main # "DOWN" /\ req.pending.headsail # ""
    /\ req.pending.staysail_mode
    /\ resp.pending = req.pending

\* C10: main is never empty, neither in the pending configuration the client
\* holds nor in the committed configuration a read returns or a response shows.
C10_MainNeverEmpty ==
    /\ form.main # ""
    /\ get_current_sail_config(store, now).main # ""
    /\ req.op \in {"toggle_sail", "toggle_staysail", "save", "config"} =>
         /\ resp.pending.main # ""
         /\ resp.committed.main # ""

\* C10 witness: a configuration with a headsail and main DOWN, saved and read back
C10_Witness ==
    /\ req.op = "save" /\ resp.save_success /\ req.read_ok
    /\ \E p \in store : p.time = req.timestamp /\ p.main = "DOWN"
    /\ resp.committed.main = "DOWN"
    /\ resp.committed.headsail # ""

\* the last response is that of a toggle request
ToggleResponse ==
    req.op \in {"toggle_sail", "toggle_staysail"}

\* C11: the has_changes flag of a toggle is true exactly when main, headsail,
\* downwind or staysail mode differs between pending and committed; the
\* comment of the committed configuration plays no part.
C11_HasChanges ==
    ToggleResponse =>
        (resp.has_changes <=>
            \/ resp.pending.main # resp.committed.main
            \/ resp.pending.headsail # resp.committed.headsail
            \/ resp.pending.downwind # resp.committed.downwind
            \/ resp.pending.staysail_mode # resp.committed.staysail_mode)

\* C11 witness: a pending configuration toggled back to the committed one,
\* which was saved with sails set and a comment: nothing has changed
C11_Witness ==
    /\ ToggleResponse
    /\ store # {}
    /\ resp.committed.comment = "reefed"
    /\ resp.committed.staysail_mode
    /\ PendingOf(resp.committed) = resp.pending
    /\ ~resp.has_changes

\* the timestamps of a set of points: what identifies a record in the store
Times(points) == {p.time : p \in points}

\* C12: a toggle request leaves the stored records as they are; a record
\* appears in the store only by a save, which writes the pending configuration
\* that request supplied, and a timestamp leaves the store only by a delete.
C12_TogglesNeverPersist ==
    [][/\ (served' # served /\ req'.op \in {"toggle_sail", "toggle_staysail"})
            => store' = store
       /\ \A p \in store' \ store :
            /\ req'.op = "save"
            /\ p = Point(req'.pending.main, req'.pending.headsail,
                         req'.pending.downwind, req'.pending.staysail_mode,
                         req'.comment, req'.timestamp)
       /\ Times(store) \ Times(store') # {} => req'.op = "delete"]_vars

\* C12 witness: after a save, a toggle has returned a pending configuration
\* that differs from the committed one and from every stored record
C12_Witness ==
    /\ ToggleResponse
    /\ store # {}
    /\ resp.has_changes
    /\ \A p \in store : PendingOf(Entry(p)) # resp.pending

\* a pending configuration with main DOWN, as the scenario has throughout
Scenario(headsail, downwind, staysail_mode) ==
    [main |-> "DOWN", headsail |-> headsail, downwind |-> downwind,
     staysail_mode |-> staysail_mode]

\* the last request was this toggle on this supplied pending configuration
Step(pending, op, category, value) ==
    /\ req.op = op
    /\ req.pending = pending
    /\ op = "toggle_sail" => req.category = category /\ req.value = value

\* C13: from the default pending configuration, headsail JIB gives JIB alone;
\* on that, downwind REACHING_SPI gives both with staysail mode off; on that,
\* the staysail toggle turns staysail mode on; on that, headsail GENOA gives
\* GENOA alone with staysail mode off.
C13_ScenarioTrace ==
    /\ Step(PendingOf(DefaultConfig), "toggle_sail", "headsail", "JIB")
         => resp.pending = Scenario("JIB", "", FALSE)
    /\ Step(Scenario("JIB", "", FALSE), "toggle_sail", "downwind", "REACHING_SPI")
         => resp.pending = Scenario("JIB", "REACHING_SPI", FALSE)
    /\ Step(Scenario("JIB", "REACHING_SPI", FALSE), "toggle_staysail", "", "")
         => resp.pending = Scenario("JIB", "REACHING_SPI", TRUE)
    /\ Step(Scenario("JIB", "REACHING_SPI", TRUE), "toggle_sail", "headsail", "GENOA")
         => resp.pending = Scenario("GENOA", "", FALSE)

\* C13 witness: the last step of the scenario, taken on the result of its
\* third step
C13_Witness ==
    /\ Step(Scenario("JIB", "REACHING_SPI", TRUE), "toggle_sail", "headsail", "GENOA")
    /\ resp.pending = Scenario("GENOA", "", FALSE)
    /\ form = resp.pending

\* C14: a save whose write fails still answers: with no success, no history
\* trigger, the store as it was and the committed configuration a read of
\* that store gave before the save; a request whose read fails answers with
\* the default configuration as committed, or with an empty history.
C14_FailuresAreValues ==
    [][served' # served =>
        /\ (req'.op = "save" /\ ~req'.write_ok) =>
              /\ ~resp'.save_success
              /\ ~resp'.trigger
              /\ store' = store
              /\ resp'.committed = Committed(store, now, req'.read_ok)
        /\ (req'.op \in {"toggle_sail", "toggle_staysail", "save", "config"}
              /\ ~req'.read_ok) => resp'.committed = DefaultConfig
        /\ (req'.op = "delete" /\ ~req'.read_ok) => resp'.entries = <<>>]_vars

\* C14 witness: a save of changed sails failed to write, and its response
\* shows the configuration committed before, which is not the default
C14_Witness ==
    /\ req.op = "save"
    /\ ~req.write_ok
    /\ req.read_ok
    /\ ~resp.save_success
    /\ resp.committed # DefaultConfig
    /\ PendingOf(resp.committed) # req.pending

\* C15: whatever the store holds and whichever requests of this or another
\* client came before, the pending configuration a toggle returns is the
\* engine's result on the pending values, category and value of that request.
C15_ToggleIndependent ==
    /\ req.op = "toggle_sail" =>
         resp.pending = toggleSail(req.pending, req.category, req.value)
    /\ req.op = "toggle_staysail" => resp.pending = toggleStaysail(req.pending)

\* C15 witness: this client had changed its pending sails when another client
\* saved a configuration of its own; this client's next toggle works on the
\* pending sails of its page, not on what is now committed
C15_Witness ==
    /\ req.op = "toggle_sail"
    /\ req.pending # PendingOf(DefaultConfig)
    /\ PendingOf(resp.committed) = OtherPending
    /\ req.pending # OtherPending
    /\ resp.pending # toggleSail(OtherPending, req.category, req.value)

\* no main sail is up: DOWN, no value, or the text a missing value is read as
MainDown(main) == main \in {"DOWN", PyNone, "", "None"}

\* no sail is chosen: empty, no value, or the text a missing value is read as
Unset(sail) == sail \in {"", PyNone, "None"}

\* the name a sail is shown by: its display name, or itself if it has none
Shown(sail) ==
    IF sail = "JIB" THEN "Jib"
    ELSE IF sail = "GENOA" THEN "Genoa"
    ELSE IF sail = "REACHING_SPI" THEN "Reaching Spi"
    ELSE sail

\* C16: the summary is "All sails down" exactly when main is DOWN, absent,
\* empty or the text None and headsail and downwind are each empty, absent or
\* the text None; otherwise it is the main part, then the name of the headsail
\* if one is set, with " (S)" in staysail mode, then the name of the downwind
\* sail if one is set, joined by " + ".
C16_FormatSummary ==
    req.op = "summary" =>
        LET config == req.config
            mainPart == IF MainDown(config.main) THEN "Main: DOWN"
                        ELSE "Main: " \o config.main
            headsailPart ==
                IF Unset(config.headsail) THEN ""
                ELSE " + " \o Shown(config.headsail)
                       \o (IF config.staysail_mode THEN " (S)" ELSE "")
            downwindPart == IF Unset(config.downwind) THEN ""
                            ELSE " + " \o Shown(config.downwind)
        IN  /\ resp.summary = "All sails down" <=>
                 /\ MainDown(config.main)
                 /\ Unset(config.headsail)
                 /\ Unset(config.downwind)
            /\ resp.summary # "All sails down" =>
                 resp.summary = mainPart \o headsailPart \o downwindPart

\* C16 as first stated, for a main that is not empty: "All sails down" exactly
\* when main is DOWN or absent and headsail and downwind are empty or absent;
\* refuted by a headsail, downwind or main that is the text None
C16_FormatSummaryAsStated ==
    (req.op = "summary" /\ req.config.main # "") =>
        LET config == req.config
            mainPart == IF config.main \in {"DOWN", PyNone} THEN "Main: DOWN"
                        ELSE "Main: " \o config.main
            headsailPart ==
                IF config.headsail \in {"", PyNone} THEN ""
                ELSE " + " \o Shown(config.headsail)
                       \o (IF config.staysail_mode THEN " (S)" ELSE "")
            downwindPart == IF config.downwind \in {"", PyNone} THEN ""
                            ELSE " + " \o Shown(config.downwind)
        IN  /\ resp.summary = "All sails down" <=>
                 /\ config.main \in {"DOWN", PyNone}
                 /\ config.headsail \in {"", PyNone}
                 /\ config.downwind \in {"", PyNone}
            /\ resp.summary # "All sails down" =>
                 resp.summary = mainPart \o headsailPart \o downwindPart

\* C16 witness: the summary of a full main with a jib in staysail mode and a
\* downwind sail the display table lacks
C16_Witness ==
    /\ req.op = "summary"
    /\ req.config = [main |-> "FULL", headsail |-> "JIB", downwind |-> "ASYM",
                     staysail_mode |-> TRUE]
    /\ resp.summary = "Main: FULL + Jib (S) + ASYM"

\* the same toggle of this category was applied twice, and the other of
\* headsail and downwind is after each application what it was before
TwiceKeeping(category, other) ==
    /\ Toggled(category) /\ req.twice
    /\ req.pending[other] = req.first[other]
    /\ resp.pending[other] = req.pending[other]

\* the same toggle of this category was applied twice, each time taking a
\* branch that leaves the other sail alone: the sail is taken down, or the
\* allowed pair is made
TwiceNonExclusive(category, other, sail, otherSail) ==
    /\ Toggled(category) /\ req.twice
    /\ \/ req.pending[category] = ""
       \/ req.pending[category] = sail /\ req.first[other] = otherSail
    /\ \/ resp.pending[category] = ""
       \/ resp.pending[category] = sail /\ req.pending[other] = otherSail

\* the sails of the configuration are sails of the boat, each in its place
OfTheBoat(config) ==
    /\ config.headsail \in HEADSAILS \cup {""}
    /\ config.downwind \in DOWNWIND_SAILS \cup {""}

\* C17 as claimed, for sails of the boat: a headsail toggle applied twice on
\* its non-exclusive branches returns the headsail first supplied, and a
\* downwind toggle the downwind first supplied.
C17_TargetedInvolution ==
    /\ (TwiceNonExclusive("headsail", "downwind", "JIB", "REACHING_SPI")
          /\ OfTheBoat(req.first))
         => resp.pending.headsail = req.first.headsail
    /\ (TwiceNonExclusive("downwind", "headsail", "REACHING_SPI", "JIB")
          /\ OfTheBoat(req.first))
         => resp.pending.downwind = req.first.downwind

\* C17 amended: a headsail toggle applied twice with downwind left as it was
\* returns the headsail first supplied exactly when that was the toggled value
\* or empty, and otherwise ends with no headsail; the same for a downwind
\* toggle and the downwind sail with headsail left as it was.
C17_TargetedTwice ==
    /\ TwiceKeeping("headsail", "downwind") =>
         /\ resp.pending.headsail = req.first.headsail
              <=> req.first.headsail \in {req.value, ""}
         /\ req.first.headsail \notin {req.value, ""} => resp.pending.headsail = ""
    /\ TwiceKeeping("downwind", "headsail") =>
         /\ resp.pending.downwind = req.first.downwind
              <=> req.first.downwind \in {req.value, ""}
         /\ req.first.downwind \notin {req.value, ""} => resp.pending.downwind = ""

\* C17 witness: with the reaching spinnaker up and no headsail, the jib is
\* toggled on, which makes the allowed pair, and off again
C17_Witness ==
    /\ TwiceNonExclusive("headsail", "downwind", "JIB", "REACHING_SPI")
    /\ req.first.headsail = ""
    /\ req.first.downwind = "REACHING_SPI"
    /\ req.pending.headsail = "JIB"
    /\ resp.pending.headsail = ""
    /\ resp.pending.downwind = "REACHING_SPI"

\* the configuration a read makes of a stored record
AsRead(record) ==
    [main |-> ReadBack(record.main, "DOWN"),
     headsail |-> ReadBack(record.headsail, ""),
     downwind |-> ReadBack(record.downwind, ""),
     staysail_mode |-> record.staysail_mode,
     comment |-> ReadBack(record.comment, "")]

\* the record lies within the tolerance of the instant
Within(record, timestamp) ==
    /\ record.time >= timestamp - DeleteTolerance
    /\ record.time <= timestamp + DeleteTolerance

\* the step is a delete that the store carried out
Deleted ==
    served' # served /\ req'.op = "delete" /\ req'.delete_ok

\* the step is a delete, carried out, at the instant of the latest record
DeletedLatest ==
    Deleted /\ \A p \in store : p.time <= req'.timestamp

\* C18 as claimed: a delete removes the records within the tolerance of its
\* instant and no other; after the latest record is deleted, a read gives the
\* latest record that remains, or the default when none remains.
C18_DeleteThenMostRecent ==
    [][/\ Deleted =>
            store' = {p \in store : ~Within(p, req'.timestamp)}
       /\ DeletedLatest =>
            get_current_sail_config(store', now') =
                IF store' = {} THEN DefaultConfig
                ELSE AsRead(CHOOSE p \in store' : \A q \in store' : q.time <= p.time)
      ]_vars

\* C18 amended: a delete removes the records within the tolerance of its
\* instant and no other; after the latest record is deleted, a read gives the
\* latest record that remains within the thirty days before the read, or the
\* default when none remains there.
C18_DeleteThenMostRecentInRange ==
    [][/\ Deleted =>
            store' = {p \in store : ~Within(p, req'.timestamp)}
       /\ DeletedLatest =>
            LET seen == {p \in store' : /\ p.time >= now' - RangeWindow
                                        /\ p.time < now'}
            IN  get_current_sail_config(store', now') =
                    IF seen = {} THEN DefaultConfig
                    ELSE AsRead(CHOOSE p \in seen : \A q \in seen : q.time <= p.time)
      ]_vars

\* C18 witness: the latest record was deleted, an earlier one outside the
\* tolerance remains, and a read gives that one
C18_Witness ==
    /\ req.op = "delete" /\ req.delete_ok
    /\ store # {}
    /\ \A p \in store : p.time < req.timestamp - DeleteTolerance
    /\ get_current_sail_config(store, now) # DefaultConfig
    /\ \E p \in store : get_current_sail_config(store, now) = AsRead(p)

\* C19: whatever pending configuration is supplied, with the allowed pair or
\* without, the staysail toggle returns it with staysail mode negated and main,
\* headsail and downwind as supplied; applied twice it returns the
\* configuration first supplied.
C19_StaysailFlips ==
    req.op = "toggle_staysail" =>
        /\ resp.pending.staysail_mode = ~req.pending.staysail_mode
        /\ resp.pending.main = req.pending.main
        /\ resp.pending.headsail = req.pending.headsail
        /\ resp.pending.downwind = req.pending.downwind
        /\ req.twice => resp.pending = req.first

\* C19 witness: staysail mode toggled on and off again with a genoa and no
\* downwind sail
C19_Witness ==
    /\ req.op = "toggle_staysail" /\ req.twice
    /\ req.first.headsail = "GENOA" /\ req.first.downwind = ""
    /\ ~req.first.staysail_mode
    /\ req.pending.staysail_mode
    /\ resp.pending = req.first

\* the four fields that make a change differ between the two configurations
Differ(pending, committed) ==
    \E field \in {"main", "headsail", "downwind", "staysail_mode"} :
        pending[field] # committed[field]

\* C20: in the response of a toggle, a save or a configuration refresh, the
\* has_changes flag says whether the pending and the committed configuration
\* of that response differ; after a save, successful or not, and after a
\* refresh the two are the same configuration and the flag is false.
C20_ResponseConsistent ==
    /\ req.op \in {"toggle_sail", "toggle_staysail", "save", "config"} =>
         (resp.has_changes <=> Differ(resp.pending, resp.committed))
    /\ req.op \in {"save", "config"} =>
         resp.pending = resp.committed /\ ~resp.has_changes

\* C20 witness: a save of changed sails whose write failed answers with the
\* committed configuration as pending too, and no changes
C20_Witness ==
    /\ req.op = "save"
    /\ ~req.write_ok
    /\ Differ(req.pending, resp.committed)
    /\ resp.pending = resp.committed
    /\ ~resp.has_changes

\* the last request was a save that the store carried out
Written ==
    req.op = "save" /\ req.write_ok

\* the sails of the configuration are of the boat's vocabulary, or none
OfTheVocabulary(config) ==
    /\ config.main \in MAIN_STATES \cup {"DOWN"}
    /\ config.headsail \in HEADSAILS \cup {""}
    /\ config.downwind \in DOWNWIND_SAILS \cup {""}

\* C21: a save of sails of the boat's vocabulary stores a record at its
\* timestamp with NONE for an empty headsail or downwind, and that record, read
\* as the committed configuration or as a history entry, has the main,
\* headsail, downwind and staysail mode that were saved.
C21_StoreRoundTrip ==
    (Written /\ OfTheVocabulary(req.pending)) =>
        \E p \in store :
            /\ p.time = req.timestamp
            /\ req.pending.headsail = "" <=> p.headsail = "NONE"
            /\ req.pending.downwind = "" <=> p.downwind = "NONE"
            /\ PendingOf(get_current_sail_config({p}, p.time + 1)) = req.pending
            /\ PendingOf(Entry(p)) = req.pending

\* C21 witness: a jib with no downwind sail was saved, the record holds the
\* placeholder for the downwind sail, and the response shows the jib alone
C21_Witness ==
    /\ Written /\ req.read_ok
    /\ req.pending.headsail = "JIB" /\ req.pending.downwind = ""
    /\ \E p \in store :
         p.time = req.timestamp /\ p.headsail = "JIB" /\ p.downwind = "NONE"
    /\ resp.committed.headsail = "JIB" /\ resp.committed.downwind = ""

====
